---- MODULE Spec2Model ----
(***************************************************************************)
(* Operation log of one drawing room: DrawingState (ops, undoStack,        *)
(* nextOpId, userOperations) driven by draw, undo, redo and clear          *)
(* requests of several authors.                                            *)
(***************************************************************************)
EXTENDS Integers, Sequences, FiniteSets, TLC

\* ------------------------------------------------------------------ bounds
MaxOps == 3
MaxTime == 3

\* draws the server handles, over all rooms, while three connections send
\* every kind of message
MaxDraws == 1

\* strokes the server handles, over all rooms, while two connections draw,
\* undo, redo and clear
MaxStrokes == 2

\* connections that leave
MaxClosing == 1

\* ------------------------------------------------------------- input sets
Users == {"u1", "u2"}

NoUser == "none"

Pt(x, y) == [x |-> x, y |-> y]

\* msg.op payloads a client may send: a path and a stroke width
\* (width 0 stands for an absent width, which the log reads as 4).
RawOps ==
  { [path |-> <<Pt(0, 0), Pt(10, 10)>>, width |-> 4],
    [path |-> <<Pt(15, 15), Pt(20, 20)>>, width |-> 0] }

\* connections the server accepts; each is given its own userId (uuidv4)
Conns == {"c1", "c2", "c3"}

\* the order in which a loop over connections is written down
ConnOrder == <<"c1", "c2", "c3">>

\* room identifiers a join-room can name; "" stands for a missing roomId
JoinInputs == {"", "r1"}

\* ws.roomId of a connection that is in no room
NoRoom == "null"

\* the first entries of USER_COLORS
Palette == {"#e53935", "#d81b60"}

NoColor == "none"

\* draw payloads a client can send: a stroke, and a path of a single point
DrawInputs ==
  { [path |-> <<Pt(0, 0), Pt(10, 10)>>, width |-> 4],
    [path |-> <<Pt(5, 5)>>, width |-> 4] }

\* ------------------------------------------------------------------ state
VARIABLES
  ops,             \* DrawingState.ops: applied operations
  undoStack,       \* DrawingState.undoStack
  nextOpId,        \* DrawingState.nextOpId
  userOperations,  \* DrawingState.userOperations: user -> list of opIds
  clock,           \* Date.now() as read by the latest draw (0: no draw yet)
  reply,           \* result of the last request handled
  assigned,        \* history: identities assigned in the room so far
  preUndo,         \* history: ops before the undo just handled, if any
  lastConflict     \* history: candidate of the last RedoConflict

VARIABLES
  conns,           \* per connection: readyState, userId, color, roomId
  rooms,           \* Rooms.map: roomId -> clients, userColors, drawingState
  outbox,          \* messages sent by the handler that ran last, in order
  lastReq          \* history: the message handled last and the log sizes
                   \* of the sender's room before it

VARIABLES
  clientOps,       \* per connection: CanvasApp.ops of the client behind it
  drew             \* history: clients that flushed a stroke since they
                   \* last processed room-joined

srvVars == <<conns, rooms, outbox, lastReq>>

clientVars == <<clientOps, drew>>

vars == <<ops, undoStack, nextOpId, userOperations, clock, reply,
          assigned, preUndo, lastConflict, conns, rooms, outbox, lastReq,
          clientOps, drew>>

logVars == <<ops, undoStack, nextOpId, userOperations>>

\* ---------------------------------------------------------------- helpers
Min2(a, b) == IF a < b THEN a ELSE b

Max2(a, b) == IF a > b THEN a ELSE b

RECURSIVE FoldMin(_, _, _)
FoldMin(s, i, acc) ==
  IF i > Len(s) THEN acc ELSE FoldMin(s, i + 1, Min2(acc, s[i]))

RECURSIVE FoldMax(_, _, _)
FoldMax(s, i, acc) ==
  IF i > Len(s) THEN acc ELSE FoldMax(s, i + 1, Max2(acc, s[i]))

Xs(path) == [i \in 1..Len(path) |-> path[i].x]

Ys(path) == [i \in 1..Len(path) |-> path[i].y]

\* getPathBoundingBox: only called on paths with at least two points, so the
\* Infinity seeds never survive; the fold is seeded with the first point.
getPathBoundingBox(path) ==
  [minX |-> FoldMin(Xs(path), 2, path[1].x),
   maxX |-> FoldMax(Xs(path), 2, path[1].x),
   minY |-> FoldMin(Ys(path), 2, path[1].y),
   maxY |-> FoldMax(Ys(path), 2, path[1].y)]

\* op.width || 4
WidthOr4(w) == IF w = 0 THEN 4 ELSE w

operationsOverlap(op1, op2) ==
  IF Len(op1.path) < 2 \/ Len(op2.path) < 2
  THEN FALSE
  ELSE LET box1 == getPathBoundingBox(op1.path)
           box2 == getPathBoundingBox(op2.path)
           padding == Max2(WidthOr4(op1.width), WidthOr4(op2.width))
       IN ~ ( \/ box1.maxX + padding < box2.minX
              \/ box2.maxX + padding < box1.minX
              \/ box1.maxY + padding < box2.minY
              \/ box2.maxY + padding < box1.minY )

\* Array.prototype.splice(index, 1) with a 0-based index
SpliceOut(s, idx0) == SubSeq(s, 1, idx0) \o SubSeq(s, idx0 + 2, Len(s))

\* Array.prototype.splice(index, 0, e) with a 0-based index
SpliceIn(s, idx0, e) == SubSeq(s, 1, idx0) \o <<e>> \o SubSeq(s, idx0 + 1, Len(s))

\* Array.prototype.pop
Pop(s) == SubSeq(s, 1, Len(s) - 1)

\* Array.prototype.findIndex on opId, 0-based, -1 when absent
FindIndex(s, id) ==
  IF \E i \in 1..Len(s) : s[i].opId = id
  THEN (CHOOSE i \in 1..Len(s) :
          /\ s[i].opId = id
          /\ \A j \in 1..(i - 1) : s[j].opId # id) - 1
  ELSE -1

\* undoStack.filter(op => op.userId === userId).length > 0
HasUndone(stack, u) == \E i \in 1..Len(stack) : stack[i].userId = u

\* userOperations.get(userId)?.length > 0
HasApplied(uops, u) == Len(uops[u]) > 0

MsgNothingToUndo == "Nothing to undo"

MsgNothingToRedo == "Nothing to redo"

MsgNoOpsToRedo == "No operations to redo"

MsgRedoConflict == "Cannot redo due to newer overlapping operations"

NoReply ==
  [type |-> "none", user |-> NoUser, success |-> FALSE, message |-> "",
   canUndo |-> FALSE, canRedo |-> FALSE, opId |-> 0]

NoPreUndo == [user |-> NoUser, before |-> <<>>]

\* a connection the server has not accepted yet
NoConn ==
  [readyState |-> "NONE", userId |-> NoUser, color |-> NoColor,
   roomId |-> NoRoom, isAlive |-> FALSE]

NoReq == [type |-> "none", from |-> NoUser, room |-> NoRoom, path |-> <<>>,
          nOps |-> 0, nUndone |-> 0, cleaned |-> {}, terminated |-> {}]

\* new DrawingState(), its per-user index over the user identities U
dsNew(U) ==
  [ops |-> <<>>, undoStack |-> <<>>, nextOpId |-> 1,
   userOperations |-> [u \in U |-> <<>>]]

\* the identifiers a room can have
RoomIds == {"default", "r1"}

\* Rooms.map has no entry under an identifier
NoRoomEntry ==
  [exists |-> FALSE, clients |-> {},
   userColors |-> [u \in Conns |-> NoColor], drawingState |-> dsNew(Conns)]

\* new Room(id)
newRoom == [NoRoomEntry EXCEPT !.exists = TRUE]

\* ------------------------------------------------------------------- Init
\* DrawingState.constructor; new Rooms() holds no room, no connection yet
Init ==
  /\ ops = <<>>
  /\ undoStack = <<>>
  /\ nextOpId = 1
  /\ userOperations = [u \in Users |-> <<>>]
  /\ clock = 0
  /\ reply = NoReply
  /\ assigned = {}
  /\ preUndo = NoPreUndo
  /\ lastConflict = 0
  /\ conns = [c \in Conns |-> NoConn]
  /\ rooms = [r \in RoomIds |-> NoRoomEntry]
  /\ outbox = <<>>
  /\ lastReq = NoReq
  /\ clientOps = [c \in Conns |-> <<>>]
  /\ drew = {}

\* ------------------------------------------------------------ addOperation
\* opId: this.nextOpId++
NextId(n) == n + 1

\* variant: the identity taken from the length of ops instead of nextOpId
MakeOpIdFromLength(u, raw, id, now) ==
  [opId |-> Len(ops) + 1, userId |-> u, timestamp |-> now,
   path |-> raw.path, width |-> raw.width]

\* { ...input.op, userId, opId, timestamp: Date.now(), type: 'draw' }
MakeOp(u, raw, id, now) ==
  [opId |-> id, userId |-> u, timestamp |-> now,
   path |-> raw.path, width |-> raw.width]

\* the DrawingState held by the log variables
curDS ==
  [ops |-> ops, undoStack |-> undoStack, nextOpId |-> nextOpId,
   userOperations |-> userOperations]

\* addOperation on a DrawingState ds: the new state and the operation made
dsAddOperation(ds, u, raw, now) ==
  LET op == MakeOp(u, raw, ds.nextOpId, now)
  IN [ds |-> [ops |-> Append(ds.ops, op),
              undoStack |-> ds.undoStack,
              nextOpId |-> NextId(ds.nextOpId),
              userOperations |->
                [ds.userOperations EXCEPT ![u] = Append(@, op.opId)]],
      op |-> op]

addOperation(u, raw, now) ==
  /\ nextOpId <= MaxOps
  /\ now <= MaxTime
  /\ clock' = now
  /\ \E r \in {dsAddOperation(curDS, u, raw, now)} :
        /\ nextOpId' = r.ds.nextOpId
        /\ ops' = r.ds.ops
        /\ userOperations' = r.ds.userOperations
        /\ reply' = [type |-> "op", user |-> u, success |-> TRUE,
                     message |-> "", canUndo |-> FALSE, canRedo |-> FALSE,
                     opId |-> r.op.opId]
        /\ assigned' = assigned \cup {r.op.opId}
  /\ preUndo' = NoPreUndo
  /\ UNCHANGED <<undoStack, lastConflict>>

\* -------------------------------------------------------------------- undo
NoOp == [opId |-> 0, userId |-> NoUser, timestamp |-> 0, path |-> <<>>, width |-> 0]

\* variant: the globally last operation, whoever drew it
getGlobalLastOp(opsSeq, uops, u) ==
  IF Len(uops[u]) = 0 \/ Len(opsSeq) = 0 THEN NoOp ELSE opsSeq[Len(opsSeq)]

\* getUserLastOp: the operation of ops carrying the last identity of the
\* user's index, NoOp (undefined) when the index is empty or the identity is
\* not in ops.
getUserLastOp(opsSeq, uops, u) ==
  LET userOps == uops[u]
  IN IF Len(userOps) = 0
     THEN NoOp
     ELSE LET idx == FindIndex(opsSeq, userOps[Len(userOps)])
          IN IF idx = -1 THEN NoOp ELSE opsSeq[idx + 1]

\* undo on a DrawingState ds: the new state and the result returned
dsUndo(ds, u) ==
  LET lastOp == getUserLastOp(ds.ops, ds.userOperations, u)
  IN IF lastOp = NoOp
     THEN [ds |-> ds,
           res |-> [type |-> "undo", user |-> u, success |-> FALSE,
                    message |-> MsgNothingToUndo, canUndo |-> FALSE,
                    canRedo |-> Len(ds.undoStack) > 0, opId |-> 0],
           op |-> NoOp]
     ELSE LET opIndex == FindIndex(ds.ops, lastOp.opId)
              op == ds.ops[opIndex + 1]
              newUserOps == [ds.userOperations EXCEPT ![u] = Pop(@)]
          IN [ds |-> [ops |-> SpliceOut(ds.ops, opIndex),
                      undoStack |-> Append(ds.undoStack, op),
                      nextOpId |-> ds.nextOpId,
                      userOperations |-> newUserOps],
              res |-> [type |-> "undo", user |-> u, success |-> TRUE,
                       message |-> "Operation undone",
                       canUndo |-> HasApplied(newUserOps, u),
                       canRedo |-> TRUE, opId |-> op.opId],
              op |-> op]

undo(u) ==
  \E r \in {dsUndo(curDS, u)} :
     /\ ops' = r.ds.ops
     /\ undoStack' = r.ds.undoStack
     /\ userOperations' = r.ds.userOperations
     /\ reply' = r.res
     /\ preUndo' = IF r.res.success
                   THEN [user |-> u, before |-> ops]
                   ELSE NoPreUndo
     /\ UNCHANGED <<nextOpId, clock, assigned, lastConflict>>

\* -------------------------------------------------------------------- redo
\* the backward scan of undoStack for the requester's latest undone
\* operation: 0-based index, -1 when there is none
redoCandidateIndex(stack, u) ==
  IF HasUndone(stack, u)
  THEN (CHOOSE i \in 1..Len(stack) :
          /\ stack[i].userId = u
          /\ \A j \in (i + 1)..Len(stack) : stack[j].userId # u) - 1
  ELSE -1

\* variant: any overlapping operation counts, newer or not
hasOverlappingOps(opsSeq, op) ==
  \E i \in 1..Len(opsSeq) : operationsOverlap(opsSeq[i], op)

\* this.ops.some(existingOp => existingOp.timestamp > op.timestamp &&
\*                             this.operationsOverlap(existingOp, op))
hasNewerOps(opsSeq, op) ==
  \E i \in 1..Len(opsSeq) :
     /\ opsSeq[i].timestamp > op.timestamp
     /\ operationsOverlap(opsSeq[i], op)

\* the conflict test, guarded by the timestamp of the last element of ops
redoConflict(opsSeq, op) ==
  LET latestOpTimestamp ==
        IF Len(opsSeq) > 0 THEN opsSeq[Len(opsSeq)].timestamp ELSE 0
  IN /\ op.timestamp < latestOpTimestamp
     /\ hasNewerOps(opsSeq, op)

\* the scan from the end for the position of reinsertion, 0-based
insertIndex(opsSeq, op) ==
  IF \E i \in 1..Len(opsSeq) : opsSeq[i].timestamp <= op.timestamp
  THEN CHOOSE i \in 1..Len(opsSeq) :
          /\ opsSeq[i].timestamp <= op.timestamp
          /\ \A j \in (i + 1)..Len(opsSeq) : opsSeq[j].timestamp > op.timestamp
  ELSE Len(opsSeq)

\* the result of a failed redo, over the per-user index uops
RedoFailure(uops, u, msg) ==
  [type |-> "redo", user |-> u, success |-> FALSE, message |-> msg,
   canUndo |-> HasApplied(uops, u), canRedo |-> FALSE, opId |-> 0]

RedoFail(u, msg) == RedoFailure(userOperations, u, msg)

\* redo on a DrawingState ds: the new state and the result returned
dsRedo(ds, u) ==
  IF Len(ds.undoStack) = 0
  THEN [ds |-> ds, res |-> RedoFailure(ds.userOperations, u, MsgNothingToRedo),
        op |-> NoOp]
  ELSE LET opIndex == redoCandidateIndex(ds.undoStack, u)
       IN IF opIndex = -1
          THEN [ds |-> ds,
                res |-> RedoFailure(ds.userOperations, u, MsgNoOpsToRedo),
                op |-> NoOp]
          ELSE LET op == ds.undoStack[opIndex + 1]
               IN IF redoConflict(ds.ops, op)
                  THEN [ds |-> ds,
                        res |-> RedoFailure(ds.userOperations, u,
                                            MsgRedoConflict),
                        op |-> NoOp]
                  ELSE LET newStack == Pop(ds.undoStack)
                       IN [ds |-> [ops |-> SpliceIn(ds.ops,
                                              insertIndex(ds.ops, op), op),
                                   undoStack |-> newStack,
                                   nextOpId |-> ds.nextOpId,
                                   userOperations |->
                                     [ds.userOperations EXCEPT
                                        ![u] = Append(@, op.opId)]],
                           res |-> [type |-> "redo", user |-> u,
                                    success |-> TRUE,
                                    message |-> "Operation redone",
                                    canUndo |-> TRUE,
                                    canRedo |-> Len(newStack) > 0,
                                    opId |-> op.opId],
                           op |-> op]

redo(u) ==
  \E r \in {dsRedo(curDS, u)} :
     /\ ops' = r.ds.ops
     /\ undoStack' = r.ds.undoStack
     /\ userOperations' = r.ds.userOperations
     /\ reply' = r.res
     /\ lastConflict' =
          IF r.res.message = MsgRedoConflict
          THEN undoStack[redoCandidateIndex(undoStack, u) + 1].opId
          ELSE lastConflict
     /\ preUndo' = NoPreUndo
     /\ UNCHANGED <<nextOpId, clock, assigned>>

\* ------------------------------------------------------------------- clear
\* handleMessage case 'clear': room.drawingState = new DrawingState()
clear(u) ==
  /\ ops' = dsNew(Users).ops
  /\ undoStack' = dsNew(Users).undoStack
  /\ nextOpId' = dsNew(Users).nextOpId
  /\ userOperations' = dsNew(Users).userOperations
  /\ reply' = [type |-> "clear", user |-> u, success |-> TRUE,
               message |-> "Canvas cleared", canUndo |-> FALSE,
               canRedo |-> FALSE, opId |-> 0]
  /\ preUndo' = NoPreUndo
  /\ lastConflict' = 0
  /\ UNCHANGED <<clock, assigned>>

\* ---------------------------------------------------------- specification
\* Timestamps are only ever compared with <, <= and > (redo's conflict test
\* and reinsertion scan), so Date.now() is kept up to order: a draw reads
\* either the millisecond of the previous draw or the next one.

\* a draw handled at a later millisecond than the previous draw
Draw ==
  /\ \E u \in Users, raw \in RawOps : addOperation(u, raw, clock + 1)
  /\ UNCHANGED <<srvVars, clientVars>>

\* a draw handled within the same millisecond as the previous draw
DrawSameMs ==
  /\ clock > 0
  /\ \E u \in Users, raw \in RawOps : addOperation(u, raw, clock)
  /\ UNCHANGED <<srvVars, clientVars>>

Undo == (\E u \in Users : undo(u)) /\ UNCHANGED <<srvVars, clientVars>>

Redo == (\E u \in Users : redo(u)) /\ UNCHANGED <<srvVars, clientVars>>

Clear == (\E u \in Users : clear(u)) /\ UNCHANGED <<srvVars, clientVars>>

Next == Draw \/ DrawSameMs \/ Undo \/ Redo \/ Clear

Spec == Init /\ [][Next]_vars

\* the log between two clears, every draw at its own millisecond
NextLog == Draw \/ Undo \/ Redo

SpecLog == Init /\ [][NextLog]_vars

\* ------------------------------------------------------------------ server
\* uuidv4(): the userId of connection c, shared with no other connection
uuidv4(c) == c

\* getSnapshot(userId) on a DrawingState; NoUser stands for no argument
dsGetSnapshot(ds, userId) ==
  [ops |-> ds.ops,
   canUndo |-> IF userId \in DOMAIN ds.userOperations
               THEN Len(ds.userOperations[userId]) > 0
               ELSE FALSE,
   canRedo |-> HasUndone(ds.undoStack, userId)]

\* a variant of addClient that pins the color of whoever joins last
addClientOwnColor(room, c, cs) ==
  [room EXCEPT
     !.clients = @ \cup {c},
     !.userColors = [@ EXCEPT ![cs[c].userId] = cs[c].color]]

\* Room.addClient, the room's side
addClient(room, c, cs) ==
  [room EXCEPT
     !.clients = @ \cup {c},
     !.userColors = IF @[cs[c].userId] = NoColor
                    THEN [@ EXCEPT ![cs[c].userId] = cs[c].color]
                    ELSE @]

\* a variant of removeClient that leaves the room as it is
keptClient(room, c, cs) == room

\* Room.removeClient, the room's side
removeClient(room, c, cs) ==
  LET rest == room.clients \ {c}
      hasOtherConnections == \E d \in rest : cs[d].userId = cs[c].userId
  IN [room EXCEPT
        !.clients = rest,
        !.userColors = IF hasOtherConnections
                       THEN @
                       ELSE [@ EXCEPT ![cs[c].userId] = NoColor]]

\* Rooms.findBySocket: the identifier of the connection's room, or NoRoom
findBySocket(c) ==
  IF conns[c].roomId = NoRoom THEN NoRoom
  ELSE IF rooms[conns[c].roomId].exists THEN conns[c].roomId
  ELSE NoRoom

\* the identifiers of a list of operations
OpIds(s) == [i \in 1..Len(s) |-> s[i].opId]

\* a message of the given type, fields it does not carry left at their default
Msg(type) ==
  [to |-> NoUser, type |-> type, success |-> FALSE, message |-> "",
   canUndo |-> FALSE, canRedo |-> FALSE, opId |-> 0, userId |-> NoUser,
   op |-> NoOp, ops |-> <<>>]

MsgNotInRoom == "Not in a room"

\* ws.send(JSON.stringify(data))
sendTo(c, data) == <<[data EXCEPT !.to = c]>>

\* every client of the room, whatever its readyState
allClients(room, cs) ==
  SelectSeq(ConnOrder, LAMBDA c : c \in room.clients)

\* the clients of the room a forEach loop sends to: readyState is OPEN
openClients(room, cs) ==
  SelectSeq(ConnOrder,
            LAMBDA c : c \in room.clients /\ cs[c].readyState = "OPEN")

\* broadcastRoom(room, data)
broadcastRoom(room, cs, data) ==
  LET open == openClients(room, cs)
  IN [i \in 1..Len(open) |-> [data EXCEPT !.to = open[i]]]

\* a variant of the state-update loop that takes the snapshot of no user,
\* as the clear case does
stateUpdatesOfNoUser(room, cs) ==
  LET open == openClients(room, cs)
      snapshot == dsGetSnapshot(room.drawingState, NoUser)
  IN [i \in 1..Len(open) |->
        [Msg("state-update") EXCEPT
           !.to = open[i],
           !.ops = snapshot.ops,
           !.canUndo = snapshot.canUndo,
           !.canRedo = snapshot.canRedo]]

\* the state-update loop after a successful undo or redo
stateUpdates(room, cs) ==
  LET open == openClients(room, cs)
  IN [i \in 1..Len(open) |->
        LET userSnapshot ==
              dsGetSnapshot(room.drawingState, cs[open[i]].userId)
        IN [Msg("state-update") EXCEPT
              !.to = open[i],
              !.ops = userSnapshot.ops,
              !.canUndo = userSnapshot.canUndo,
              !.canRedo = userSnapshot.canRedo]]

\* the history record of a message handled for connection c
Req(type, c, path) ==
  LET rid == findBySocket(c)
  IN [type |-> type, from |-> c, room |-> rid, path |-> path,
      nOps |-> IF rid = NoRoom THEN 0
               ELSE Len(rooms[rid].drawingState.ops),
      nUndone |-> IF rid = NoRoom THEN 0
                  ELSE Len(rooms[rid].drawingState.undoStack),
      cleaned |-> {}, terminated |-> {}]

\* wss.on('connection'); the connections are named in the order accepted
onConnection(c, color) ==
  /\ conns[c].readyState = "NONE"
  /\ \A i \in 1..Len(ConnOrder) :
        ConnOrder[i] = c =>
           \A j \in 1..(i - 1) : conns[ConnOrder[j]].readyState # "NONE"
  /\ conns' = [conns EXCEPT ![c] =
                  [readyState |-> "OPEN", userId |-> uuidv4(c),
                   color |-> color, roomId |-> NoRoom, isAlive |-> TRUE]]
  /\ outbox' = sendTo(c, [Msg("connected") EXCEPT !.userId = uuidv4(c)])
  /\ lastReq' = [NoReq EXCEPT !.type = "connection", !.from = c]
  /\ UNCHANGED <<rooms, clock>>

\* the socket starts closing: readyState leaves OPEN before 'close' is emitted
closing(c) ==
  /\ conns[c].readyState = "OPEN"
  /\ Cardinality({d \in Conns : conns[d].readyState \in {"CLOSING", "CLOSED"}})
        < MaxClosing
  /\ conns' = [conns EXCEPT ![c].readyState = "CLOSING"]
  /\ outbox' = <<>>
  /\ lastReq' = [NoReq EXCEPT !.type = "closing", !.from = c]
  /\ UNCHANGED <<rooms, clock>>

\* ws.on('close')
onClose(c) ==
  /\ conns[c].readyState = "CLOSING"
  /\ LET rid == findBySocket(c)
         cs == [conns EXCEPT ![c].readyState = "CLOSED"]
     IN IF rid = NoRoom
        THEN /\ conns' = cs
             /\ outbox' = <<>>
             /\ UNCHANGED rooms
        ELSE LET room == removeClient(rooms[rid], c, cs)
             IN /\ rooms' = [rooms EXCEPT ![rid] = room]
                /\ conns' = [cs EXCEPT ![c].roomId = NoRoom]
                /\ outbox' = broadcastRoom(room, cs,
                               [Msg("user-left") EXCEPT
                                  !.userId = conns[c].userId])
  /\ lastReq' = Req("close", c, <<>>)
  /\ UNCHANGED clock

\* handleMessage case 'join-room'
onJoinRoom(c, input) ==
  /\ conns[c].readyState = "OPEN"
  /\ LET oldRoom == findBySocket(c)
         rooms1 == IF oldRoom = NoRoom THEN rooms
                   ELSE [rooms EXCEPT
                           ![oldRoom] = removeClient(@, c, conns)]
         conns1 == IF oldRoom = NoRoom THEN conns
                   ELSE [conns EXCEPT ![c].roomId = NoRoom]
         out1 == IF oldRoom = NoRoom THEN <<>>
                 ELSE broadcastRoom(rooms1[oldRoom], conns1,
                                    Msg("users-updated"))
         roomId == IF input = "" THEN "default" ELSE input
         rooms2 == IF rooms1[roomId].exists THEN rooms1
                   ELSE [rooms1 EXCEPT ![roomId] = newRoom]
         rooms3 == [rooms2 EXCEPT ![roomId] = addClient(@, c, conns1)]
         conns3 == [conns1 EXCEPT
                      ![c].roomId = roomId,
                      ![c].color = rooms3[roomId].userColors[conns[c].userId]]
         state == dsGetSnapshot(rooms3[roomId].drawingState, NoUser)
     IN /\ rooms' = rooms3
        /\ conns' = conns3
        /\ outbox' =
             out1
             \o sendTo(c, [Msg("room-joined") EXCEPT
                             !.ops = state.ops,
                             !.canUndo = state.canUndo,
                             !.canRedo = state.canRedo])
             \o broadcastRoom(rooms3[roomId], conns3, Msg("users-updated"))
  /\ lastReq' = Req("join-room", c, <<>>)
  /\ UNCHANGED clock

\* the recipients of the 'op' message of a draw
opRecipients(room, cs) == openClients(room, cs)

\* handleMessage case 'draw'; Date.now() is a millisecond after the last draw
onDraw(c, raw) ==
  /\ conns[c].readyState = "OPEN"
  /\ LET rid == findBySocket(c)
     IN IF rid = NoRoom
        THEN /\ outbox' = <<>>
             /\ UNCHANGED <<rooms, clock>>
        ELSE /\ \E r \in {dsAddOperation(rooms[rid].drawingState,
                                          conns[c].userId, raw, clock + 1)},
                     to \in {opRecipients(rooms[rid], conns)} :
                   /\ rooms' = [rooms EXCEPT ![rid].drawingState = r.ds]
                   /\ outbox' =
                        [i \in 1..Len(to) |->
                           [Msg("op") EXCEPT
                              !.to = to[i],
                              !.op = r.op,
                              !.opId = r.op.opId,
                              !.userId = r.op.userId]]
             /\ clock' = clock + 1
  /\ lastReq' = Req("draw", c, raw.path)
  /\ UNCHANGED conns

\* handleMessage case 'cursor'
onCursor(c) ==
  /\ conns[c].readyState = "OPEN"
  /\ LET rid == findBySocket(c)
     IN outbox' =
          IF rid = NoRoom THEN <<>>
          ELSE broadcastRoom(rooms[rid], conns,
                             [Msg("cursor") EXCEPT
                                !.userId = conns[c].userId])
  /\ lastReq' = Req("cursor", c, <<>>)
  /\ UNCHANGED <<conns, rooms, clock>>

\* the reply to a request from a connection that is in no room
notInRoom(c, type) ==
  sendTo(c, [Msg(type) EXCEPT !.message = MsgNotInRoom])

\* a variant that sends the result of a failed undo or redo to the room
broadcastFailure(room, cs, c, res) ==
  broadcastRoom(room, cs,
                [Msg(res.type) EXCEPT
                   !.message = res.message,
                   !.canUndo = res.canUndo,
                   !.canRedo = res.canRedo])

\* the messages of a failed undo or redo: the result, to the requester
sendFailure(room, cs, c, res) ==
  sendTo(c, [Msg(res.type) EXCEPT
               !.message = res.message,
               !.canUndo = res.canUndo,
               !.canRedo = res.canRedo])

\* the messages of a successful undo or redo: the result to the room, then
\* a state-update to each client
sendSuccess(room, cs, c, res, op) ==
  broadcastRoom(room, cs,
                [Msg(res.type) EXCEPT
                   !.success = TRUE,
                   !.op = op,
                   !.opId = res.opId,
                   !.canUndo = res.canUndo,
                   !.canRedo = res.canRedo,
                   !.message = res.message,
                   !.userId = cs[c].userId])
  \o stateUpdates(room, cs)

\* the common part of handleMessage cases 'undo' and 'redo', r the outcome
\* of the DrawingState method
undoRedoCase(c, type, rid, r) ==
  IF rid = NoRoom
  THEN /\ outbox' = notInRoom(c, type)
       /\ UNCHANGED rooms
  ELSE LET room == [rooms[rid] EXCEPT !.drawingState = r.ds]
       IN /\ rooms' = [rooms EXCEPT ![rid] = room]
          /\ outbox' = IF r.res.success
                       THEN sendSuccess(room, conns, c, r.res, r.op)
                       ELSE sendFailure(room, conns, c, r.res)

\* handleMessage case 'undo'
onUndo(c) ==
  /\ conns[c].readyState = "OPEN"
  /\ LET rid == findBySocket(c)
     IN \E r \in {IF rid = NoRoom THEN NoOp
                  ELSE dsUndo(rooms[rid].drawingState, conns[c].userId)} :
           undoRedoCase(c, "undo", rid, r)
  /\ lastReq' = Req("undo", c, <<>>)
  /\ UNCHANGED <<conns, clock>>

\* handleMessage case 'redo'
onRedo(c) ==
  /\ conns[c].readyState = "OPEN"
  /\ LET rid == findBySocket(c)
     IN \E r \in {IF rid = NoRoom THEN NoOp
                  ELSE dsRedo(rooms[rid].drawingState, conns[c].userId)} :
           undoRedoCase(c, "redo", rid, r)
  /\ lastReq' = Req("redo", c, <<>>)
  /\ UNCHANGED <<conns, clock>>

\* a variant of the clear that installs a whole new room
replacedRoom(room) == newRoom

\* the room after handleMessage case 'clear'
clearedRoom(room) == [room EXCEPT !.drawingState = dsNew(Conns)]

\* handleMessage case 'clear'
onClear(c) ==
  /\ conns[c].readyState = "OPEN"
  /\ LET rid == findBySocket(c)
     IN IF rid = NoRoom
        THEN /\ outbox' = notInRoom(c, "clear")
             /\ UNCHANGED rooms
        ELSE LET room == clearedRoom(rooms[rid])
                 snapshot == dsGetSnapshot(room.drawingState, NoUser)
             IN /\ rooms' = [rooms EXCEPT ![rid] = room]
                /\ outbox' =
                     broadcastRoom(room, conns,
                                   [Msg("clear") EXCEPT
                                      !.success = TRUE,
                                      !.message = "Canvas cleared",
                                      !.userId = conns[c].userId])
                     \o broadcastRoom(room, conns,
                                      [Msg("state-update") EXCEPT
                                         !.ops = snapshot.ops,
                                         !.canUndo = snapshot.canUndo,
                                         !.canRedo = snapshot.canRedo])
  /\ lastReq' = Req("clear", c, <<>>)
  /\ UNCHANGED <<conns, clock>>

\* the log variables of the single-room specifications stay as constructed
RoomLogIdle ==
  UNCHANGED <<ops, undoStack, nextOpId, userOperations, reply, assigned,
              preUndo, lastConflict>>

\* a step of the server alone: the single-room log and the clients' local
\* state stay as they are
LogIdle == RoomLogIdle /\ UNCHANGED clientVars

\* the color drawn at random plays no part in how messages are routed:
\* every connection is given the first of the palette
Connection ==
  (\E c \in Conns : onConnection(c, "#e53935")) /\ LogIdle

Closing == (\E c \in Conns : closing(c)) /\ LogIdle

Close == (\E c \in Conns : onClose(c)) /\ LogIdle

JoinRoomMsg ==
  (\E c \in Conns, input \in JoinInputs : onJoinRoom(c, input)) /\ LogIdle

DrawMsg ==
  /\ clock < MaxDraws
  /\ \E c \in Conns, raw \in DrawInputs : onDraw(c, raw)
  /\ LogIdle

CursorMsg == (\E c \in Conns : onCursor(c)) /\ LogIdle

UndoMsg == (\E c \in Conns : onUndo(c)) /\ LogIdle

RedoMsg == (\E c \in Conns : onRedo(c)) /\ LogIdle

ClearMsg == (\E c \in Conns : onClear(c)) /\ LogIdle

NextServer ==
  \/ Connection \/ Closing \/ Close \/ JoinRoomMsg \/ DrawMsg
  \/ CursorMsg \/ UndoMsg \/ RedoMsg \/ ClearMsg

\* the server: connections, rooms, each room with its own log
SpecServer == Init /\ [][NextServer]_vars

\* the first two connections accepted
Pair == {ConnOrder[1], ConnOrder[2]}

\* the stroke of DrawInputs: a path of two points
Stroke == [path |-> <<Pt(0, 0), Pt(10, 10)>>, width |-> 4]

ConnectionOfPair ==
  (\E c \in Pair : onConnection(c, "#e53935")) /\ LogIdle

StrokeMsg ==
  /\ clock < MaxStrokes
  /\ \E c \in Conns : onDraw(c, Stroke)
  /\ LogIdle

NextRoom ==
  \/ ConnectionOfPair \/ Closing \/ Close \/ JoinRoomMsg \/ StrokeMsg
  \/ UndoMsg \/ RedoMsg \/ ClearMsg

\* two connections over the rooms, drawing strokes that overlap
SpecRoom == Init /\ [][NextRoom]_vars

\* ------------------------------------------------------------ directory
\* a variant of the reaper that spares no identifier
emptyRooms ==
  {r \in RoomIds : rooms[r].exists /\ rooms[r].clients = {}}

\* the rooms Rooms.cleanupEmptyRooms deletes
reapedRooms ==
  {r \in RoomIds :
     r # "default" /\ rooms[r].exists /\ rooms[r].clients = {}}

\* Rooms.cleanupEmptyRooms, run by the 60000 ms interval
cleanupEmptyRooms ==
  /\ rooms' = [r \in RoomIds |->
                 IF r \in reapedRooms THEN NoRoomEntry ELSE rooms[r]]
  /\ outbox' = <<>>
  /\ lastReq' = [NoReq EXCEPT !.type = "reap", !.cleaned = reapedRooms]
  /\ UNCHANGED <<conns, clock>>

\* the connections of wss.clients: accepted and not yet closed
wssClients == {c \in Conns : conns[c].readyState \in {"OPEN", "CLOSING"}}

\* a variant of the heartbeat that terminates whoever it probes
probed(c) == TRUE

\* the connections the heartbeat terminates: !ws.isAlive
unanswered(c) == ~conns[c].isAlive

\* the heartbeat interval: terminate the connections that did not answer
\* the last probe (their 'close' is emitted afterwards), probe the others
heartbeat ==
  /\ conns' = [c \in Conns |->
                 IF c \notin wssClients THEN conns[c]
                 ELSE IF unanswered(c)
                      THEN [conns[c] EXCEPT !.readyState = "CLOSING"]
                      ELSE [conns[c] EXCEPT !.isAlive = FALSE]]
  /\ outbox' = <<>>
  /\ lastReq' = [NoReq EXCEPT
                   !.type = "heartbeat",
                   !.terminated = {c \in wssClients :
                                     /\ unanswered(c)
                                     /\ conns[c].readyState = "OPEN"}]
  /\ UNCHANGED <<rooms, clock>>

\* ws.on('pong'): the connection answers the probe
onPong(c) ==
  /\ conns[c].readyState = "OPEN"
  /\ ~conns[c].isAlive
  /\ conns' = [conns EXCEPT ![c].isAlive = TRUE]
  /\ outbox' = sendTo(c, Msg("pong"))
  /\ lastReq' = [NoReq EXCEPT !.type = "pong", !.from = c]
  /\ UNCHANGED <<rooms, clock>>

Reap == cleanupEmptyRooms /\ LogIdle

Heartbeat == heartbeat /\ LogIdle

Pong == (\E c \in Conns : onPong(c)) /\ LogIdle

NextDirectory ==
  \/ Connection \/ Closing \/ Close \/ JoinRoomMsg
  \/ Reap \/ Heartbeat \/ Pong

\* connections joining and leaving rooms, the reaper and the heartbeat
SpecDirectory == Init /\ [][NextDirectory]_vars

\* the same, where a socket that is closing does emit its 'close'
SpecHeartbeat ==
  /\ Init
  /\ [][NextDirectory]_vars
  /\ \A c \in Conns : WF_vars(onClose(c) /\ LogIdle)

\* --------------------------------------------------------------- colors
\* ws.color drawn at random from the palette
ConnectionAnyColor ==
  (\E c \in Conns, color \in Palette : onConnection(c, color)) /\ LogIdle

NextColors == ConnectionAnyColor \/ Closing \/ Close \/ JoinRoomMsg

\* connections with random colors joining and leaving rooms
SpecColors == Init /\ [][NextColors]_vars

\* the author identities the sockets handed to a Room carry
Authors == {uuidv4(c) : c \in Pair}

\* a socket with the given ws.userId and ws.color, as Room.addClient and
\* Room.removeClient take it; the sockets are named in the order made
socketOf(c, userId, color) ==
  /\ conns[c].readyState = "NONE"
  /\ \A i \in 1..Len(ConnOrder) :
        ConnOrder[i] = c =>
           \A j \in 1..(i - 1) : conns[ConnOrder[j]].readyState # "NONE"
  /\ conns' = [conns EXCEPT ![c] =
                  [readyState |-> "OPEN", userId |-> userId,
                   color |-> color, roomId |-> NoRoom, isAlive |-> TRUE]]
  /\ outbox' = sendTo(c, [Msg("connected") EXCEPT !.userId = userId])
  /\ lastReq' = [NoReq EXCEPT !.type = "connection", !.from = c]
  /\ UNCHANGED <<rooms, clock>>

SocketOfAuthor ==
  /\ \E c \in Conns, userId \in Authors, color \in Palette :
        socketOf(c, userId, color)
  /\ LogIdle

NextAuthors == SocketOfAuthor \/ Closing \/ Close \/ JoinRoomMsg

\* Room on its own: sockets of two authors, several of them of one author,
\* added to and removed from rooms
SpecAuthors == Init /\ [][NextAuthors]_vars

\* ------------------------------------------------------------- properties
Last(s) == s[Len(s)]

\* some operation of opsSeq is newer than op and overlaps it
NewerOverlapping(opsSeq, op) ==
  \E i \in 1..Len(opsSeq) :
     /\ opsSeq[i].timestamp > op.timestamp
     /\ operationsOverlap(opsSeq[i], op)

\* every operation of s drawn by someone else than u is still in t
OthersKept(s, t, u) ==
  \A i \in 1..Len(s) :
     s[i].userId # u => \E j \in 1..Len(t) : t[j] = s[i]

\* C1: in every reachable state ops is sorted by timestamp ascending, also
\* right after a redo of an operation older than everything in ops.
C1_OpsSortedByTimestamp ==
  \A i \in 1..Len(ops) : \A j \in i..Len(ops) :
     ops[i].timestamp <= ops[j].timestamp

\* C2: no operation identity is in ops and in undoStack at the same time.
C2_OpsUndoStackDisjoint ==
  \A i \in 1..Len(ops) : \A j \in 1..Len(undoStack) :
     ops[i].opId # undoStack[j].opId

C4_UndoRedoRestoresOps ==
  [][\A u \in Users :
       (preUndo.user = u /\ redo(u) /\ reply'.success) =>
          ops' = preUndo.before]_vars

\* C5: a redo by u whose candidate has a newer, overlapping operation
\* anywhere in ops fails with RedoConflict and changes nothing.
C5_RedoConflictWheneverNewerOverlap ==
  [][\A u \in Users :
       (/\ redo(u)
        /\ redoCandidateIndex(undoStack, u) # -1
        /\ NewerOverlapping(ops, undoStack[redoCandidateIndex(undoStack, u) + 1]))
       => /\ ~reply'.success
          /\ reply'.message = MsgRedoConflict
          /\ UNCHANGED logVars]_vars

C7_RedoKeepsOthersOperations ==
  [][\A u \in Users :
       redo(u) => /\ OthersKept(ops, ops', u)
                  /\ OthersKept(undoStack, undoStack', u)]_vars

\* C8: redo has nothing to redo once the author's undone operations are all
\* redone, so it never reinserts an operation more often than undo removed
\* it: ops never holds the same identity twice.
C8_OpsHoldsNoIdentityTwice ==
  \A i \in 1..Len(ops) : \A j \in 1..Len(ops) :
     i # j => ops[i].opId # ops[j].opId

\* C9: with draw, undo and redo in any order, each draw is given an
\* identity strictly greater than every identity given before in the room.
C9_IdentitiesStrictlyIncreasing ==
  [][\A u \in Users, raw \in RawOps :
       addOperation(u, raw, clock + 1) =>
          /\ Last(ops').userId = u
          /\ reply'.opId = Last(ops').opId
          /\ \A id \in assigned : Last(ops').opId > id]_vars

\* C9 witness: a third identity was given while an undone operation was
\* waiting on undoStack.
C9_Witness ==
  /\ reply.type = "op"
  /\ reply.opId = 3
  /\ assigned = {1, 2, 3}
  /\ Len(undoStack) > 0

\* C10: an identity given once in a room is never given again in that room,
\* also not to a draw made after a clear.
C10_IdentityNeverReused ==
  [][\A u \in Users, raw \in RawOps, now \in {clock, clock + 1} :
       addOperation(u, raw, now) => Last(ops').opId \notin assigned]_vars

\* C11: every operation made by addOperation gets a timestamp strictly
\* greater than that of every operation made before in the same log,
\* whatever the timing of the draws.
C11_TimestampsStrictlyIncreasing ==
  [][\A u \in Users, raw \in RawOps, now \in {clock, clock + 1} :
       addOperation(u, raw, now) =>
          /\ \A i \in 1..Len(ops) : Last(ops').timestamp > ops[i].timestamp
          /\ \A i \in 1..Len(undoStack) :
                Last(ops').timestamp > undoStack[i].timestamp]_vars

\* how often identity id occurs in the list of identities s
Occurrences(s, id) == Cardinality({k \in 1..Len(s) : s[k] = id})

\* C12: every operation of ops is listed exactly once in its author's
\* per-user index and in no other index, every index lists only identities
\* of operations of ops, and so canUndo of an author is true exactly when
\* ops holds an operation of that author.
C12_IndexMatchesOps ==
  /\ \A i \in 1..Len(ops) : \A u \in Users :
        Occurrences(userOperations[u], ops[i].opId) =
           (IF u = ops[i].userId THEN 1 ELSE 0)
  /\ \A u \in Users : \A k \in 1..Len(userOperations[u]) :
        \E i \in 1..Len(ops) : ops[i].opId = userOperations[u][k]
  /\ \A u \in Users :
        HasApplied(userOperations, u) <=>
           \E i \in 1..Len(ops) : ops[i].userId = u

\* C17: the canRedo of a successful redo by u is true exactly when undoStack
\* still holds an operation drawn by u; other authors' undone operations do
\* not make it true.
C17_RedoResultCanRedoIsOwn ==
  (reply.type = "redo" /\ reply.success) =>
     (reply.canRedo <=> HasUndone(undoStack, reply.user))

\* C18: an undo by u that fails with NothingToUndo replies canUndo false and
\* canRedo true exactly when undoStack holds an operation drawn by u.
C18_UndoFailureFlagsAreOwn ==
  (reply.type = "undo" /\ ~reply.success) =>
     /\ reply.message = MsgNothingToUndo
     /\ ~reply.canUndo
     /\ reply.canRedo <=> HasUndone(undoStack, reply.user)

\* C13: a clear from a connection in a room leaves that room's ops and
\* undoStack empty, so that every connection's snapshot has canUndo and
\* canRedo false and an undo or redo by anyone fails, while the room's
\* clients and its userColors are what they were.
C13_ClearEmptiesLogKeepsClients ==
  [][\A c \in Conns :
       ( /\ lastReq'.type = "clear"
         /\ onClear(c)
         /\ findBySocket(c) # NoRoom ) =>
          LET rid == findBySocket(c)
              ds == rooms'[rid].drawingState
          IN /\ ds.ops = <<>>
             /\ ds.undoStack = <<>>
             /\ \A d \in Conns :
                   /\ ~dsGetSnapshot(ds, uuidv4(d)).canUndo
                   /\ ~dsGetSnapshot(ds, uuidv4(d)).canRedo
                   /\ ~dsUndo(ds, uuidv4(d)).res.success
                   /\ ~dsRedo(ds, uuidv4(d)).res.success
             /\ rooms'[rid].clients = rooms[rid].clients
             /\ rooms'[rid].userColors = rooms[rid].userColors
             /\ rooms'[rid].exists]_vars

\* a clear has just emptied a log that held applied and undone operations,
\* in a room of two clients
C13_Witness ==
  /\ lastReq.type = "clear"
  /\ lastReq.room # NoRoom
  /\ lastReq.nOps > 0
  /\ lastReq.nUndone > 0
  /\ rooms[lastReq.room].drawingState.ops = <<>>
  /\ rooms[lastReq.room].drawingState.undoStack = <<>>
  /\ Cardinality(rooms[lastReq.room].clients) = 2
  /\ \A d \in rooms[lastReq.room].clients :
        rooms[lastReq.room].userColors[uuidv4(d)] # NoColor

\* C14: a draw, undo, redo or clear from a connection that is in no room is
\* answered by exactly one message, to that connection, of the request's
\* type with success false and the not-in-a-room text; nothing is sent to
\* anyone else and no room changes.
C14_UnboundRequestGetsFailureReply ==
  [][\A c \in Conns :
       ( /\ findBySocket(c) = NoRoom
         /\ \/ \E raw \in DrawInputs : onDraw(c, raw)
            \/ onUndo(c)
            \/ onRedo(c)
            \/ onClear(c) ) =>
          /\ Len(outbox') = 1
          /\ outbox'[1].to = c
          /\ outbox'[1].type = lastReq'.type
          /\ ~outbox'[1].success
          /\ outbox'[1].message = MsgNotInRoom
          /\ rooms' = rooms]_vars

\* C15: a draw from a connection in a room whose path has fewer than two
\* points leaves every room as it was (ops, the per-user index and the next
\* identity unchanged) and sends no op message.
C15_ShortPathDrawRejected ==
  [][\A c \in Conns, raw \in DrawInputs :
       ( /\ findBySocket(c) # NoRoom
         /\ Len(raw.path) < 2
         /\ onDraw(c, raw) ) =>
          /\ rooms' = rooms
          /\ \A i \in 1..Len(outbox') : outbox'[i].type # "op"]_vars

\* C16: an undo or redo from a connection in a room that the log refuses
\* sends exactly one message, the result with success false to the requester,
\* and leaves every room (ops, undoStack, the per-user indexes) as it was.
C16_FailedUndoRedoRepliesToRequesterOnly ==
  [][\A c \in Conns :
       LET rid == findBySocket(c)
           ds == rooms[rid].drawingState
       IN ( /\ rid # NoRoom
            /\ lastReq'.from = c
            /\ \/ /\ lastReq'.type = "undo"
                  /\ onUndo(c)
                  /\ ~dsUndo(ds, conns[c].userId).res.success
               \/ /\ lastReq'.type = "redo"
                  /\ onRedo(c)
                  /\ ~dsRedo(ds, conns[c].userId).res.success ) =>
             /\ Len(outbox') = 1
             /\ outbox'[1].to = c
             /\ outbox'[1].type = lastReq'.type
             /\ ~outbox'[1].success
             /\ outbox'[1].message \in
                  {MsgNothingToUndo, MsgNothingToRedo, MsgNoOpsToRedo,
                   MsgRedoConflict}
             /\ rooms' = rooms]_vars

\* a redo has just been refused for a conflict, in a room with a second open
\* client, and only the requester was sent the result
C16_Witness ==
  /\ lastReq.type = "redo"
  /\ lastReq.room # NoRoom
  /\ Len(outbox) = 1
  /\ outbox[1].to = lastReq.from
  /\ outbox[1].message = MsgRedoConflict
  /\ \E d \in rooms[lastReq.room].clients :
        d # lastReq.from /\ conns[d].readyState = "OPEN"

\* the connections the messages of the outbox with the given type go to,
\* one entry per message
Recipients(out, type) ==
  LET sel == SelectSeq(out, LAMBDA m : m.type = type)
  IN [i \in 1..Len(sel) |-> sel[i].to]

\* C19: a draw of a stroke from a connection in room R appends exactly one
\* operation to R's log, changes no other room, and sends exactly one op
\* message carrying the new operation's identity to each open connection of
\* R, the sender among them, and to no connection outside R.
C19_DrawAppendsAndBroadcastsToRoom ==
  [][\A c \in Conns, raw \in DrawInputs :
       LET R == findBySocket(c)
           before == rooms[R].drawingState.ops
           after == rooms'[R].drawingState.ops
           openOfR == {d \in rooms[R].clients : conns[d].readyState = "OPEN"}
           to == Recipients(outbox', "op")
       IN ( /\ R # NoRoom
            /\ Len(raw.path) >= 2
            /\ lastReq'.type = "draw"
            /\ onDraw(c, raw) ) =>
             /\ Len(after) = Len(before) + 1
             /\ SubSeq(after, 1, Len(before)) = before
             /\ Last(after).userId = conns[c].userId
             /\ Last(after).path = raw.path
             /\ \A r \in RoomIds \ {R} : rooms'[r] = rooms[r]
             /\ Len(outbox') = Len(to)
             /\ {to[i] : i \in 1..Len(to)} = openOfR
             /\ Len(to) = Cardinality(openOfR)
             /\ c \in openOfR
             /\ \A i \in 1..Len(outbox') :
                   outbox'[i].opId = Last(after).opId]_vars

\* a stroke has just been drawn in a room of two open connections, the
\* sender one of them, while a third open connection is in the other room:
\* exactly the two in the room were sent the op message with the new identity
C19_Witness ==
  /\ lastReq.type = "draw"
  /\ lastReq.room # NoRoom
  /\ Len(lastReq.path) >= 2
  /\ Cardinality(rooms[lastReq.room].clients) = 2
  /\ \A d \in rooms[lastReq.room].clients : conns[d].readyState = "OPEN"
  /\ \E d \in Conns :
        conns[d].readyState = "OPEN" /\ conns[d].roomId \notin
           {NoRoom, lastReq.room}
  /\ Len(outbox) = 2
  /\ \A i \in 1..Len(outbox) :
        /\ outbox[i].type = "op"
        /\ outbox[i].opId = Last(rooms[lastReq.room].drawingState.ops).opId

\* C20: a cursor message from a connection in room R is sent once to each
\* other open connection of R and not to the sender, and changes no room and
\* no connection.
C20_CursorGoesToOthersOnly ==
  [][\A c \in Conns :
       LET R == findBySocket(c)
           othersOfR == {d \in rooms[R].clients \ {c} :
                           conns[d].readyState = "OPEN"}
           to == Recipients(outbox', "cursor")
       IN (R # NoRoom /\ onCursor(c)) =>
             /\ Len(outbox') = Len(to)
             /\ {to[i] : i \in 1..Len(to)} = othersOfR
             /\ Len(to) = Cardinality(othersOfR)
             /\ rooms' = rooms
             /\ conns' = conns]_vars

\* the rooms whose client set holds connection c, in the directory d
RoomsOf(d, c) == {r \in RoomIds : c \in d[r].clients}

\* C21: after every step each connection is in the client set of at most one
\* room, and a join-room from a connection that is in a room leaves it in the
\* client set of the target room only, also when the target is the room it
\* was in.
C21_MemberOfAtMostOneRoom ==
  [][/\ \A c \in Conns : Cardinality(RoomsOf(rooms', c)) <= 1
     /\ \A c \in Conns, input \in JoinInputs :
          ( /\ lastReq'.type = "join-room"
            /\ findBySocket(c) # NoRoom
            /\ onJoinRoom(c, input) ) =>
             RoomsOf(rooms', c) =
                {IF input = "" THEN "default" ELSE input}]_vars

\* a connection that was in one room has just joined the other and is a
\* client of that one only
C21_Witness ==
  /\ lastReq.type = "join-room"
  /\ lastReq.room # NoRoom
  /\ conns[lastReq.from].roomId \notin {NoRoom, lastReq.room}
  /\ rooms[lastReq.room].exists
  /\ RoomsOf(rooms, lastReq.from) = {conns[lastReq.from].roomId}

\* the clients of room r in directory d whose socket carries author u
MembersOf(d, cs, r, u) == {c \in d[r].clients : cs[c].userId = u}

PinnedToOthers(d, r, u) ==
  {d[r].userColors[w] : w \in {uuidv4(c) : c \in Conns} \ {u}} \ {NoColor}

\* C23: when a connection whose author has no pinned color in the target
\* room joins it while some palette color is pinned to no other author of the
\* room, the color pinned for the author is one that is pinned to no other
\* author of the room.
C23_FirstJoinPinsUnusedColor ==
  [][\A c \in Conns, input \in JoinInputs :
       LET r == IF input = "" THEN "default" ELSE input
           u == conns[c].userId
           others == PinnedToOthers(rooms, r, u)
       IN ( /\ lastReq'.type = "join-room"
            /\ onJoinRoom(c, input)
            /\ findBySocket(c) # r
            /\ Palette \ others # {} ) =>
             rooms'[r].userColors[u] \notin others]_vars

C25_DefaultRoomAlwaysPresent == rooms["default"].exists

\* C26: a heartbeat tick takes out of OPEN every connection that has not
\* answered the last probe and leaves open every open connection that has;
\* the 'close' of a connection in a room removes it from the room's clients
\* and sends user-left with its userId to each open client that remains; and
\* a connection that is closing is eventually closed and in no room.
C26_UnansweredProbeEndsInDisconnect ==
  /\ [][(lastReq'.type = "heartbeat" /\ heartbeat) =>
          \A c \in wssClients :
             /\ ~conns[c].isAlive => conns'[c].readyState = "CLOSING"
             /\ (conns[c].isAlive /\ conns[c].readyState = "OPEN") =>
                   conns'[c].readyState = "OPEN"]_vars
  /\ [][\A c \in Conns :
          LET rid == findBySocket(c)
              to == Recipients(outbox', "user-left")
          IN (lastReq'.type = "close" /\ rid # NoRoom /\ onClose(c)) =>
                /\ RoomsOf(rooms', c) = {}
                /\ Len(outbox') = Len(to)
                /\ Len(to) = Cardinality({to[i] : i \in 1..Len(to)})
                /\ {to[i] : i \in 1..Len(to)} =
                      {d \in rooms[rid].clients \ {c} :
                         conns[d].readyState = "OPEN"}
                /\ \A i \in 1..Len(outbox') :
                      outbox'[i].userId = conns[c].userId]_vars
  /\ \A c \in Conns :
        (conns[c].readyState = "CLOSING") ~>
           (conns[c].readyState = "CLOSED" /\ RoomsOf(rooms, c) = {})

\* a heartbeat tick has just terminated a connection that is in a room with
\* another, open client, while a connection that had answered stays open
C26_Witness ==
  /\ lastReq.type = "heartbeat"
  /\ \E c \in lastReq.terminated :
        /\ conns[c].readyState = "CLOSING"
        /\ conns[c].roomId # NoRoom
        /\ \E d \in rooms[conns[c].roomId].clients :
              /\ d # c
              /\ conns[d].readyState = "OPEN"
              /\ d \notin lastReq.terminated

\* C27: a successful undo removes the last operation of ops, whoever asked,
\* and a successful redo re-applies the operation on top of undoStack and
\* takes it off the stack.
C27_UndoIsGlobal ==
  [][\A u \in Users :
       /\ (undo(u) /\ reply'.success) =>
             /\ ops' = Pop(ops)
             /\ reply'.opId = Last(ops).opId
       /\ (redo(u) /\ reply'.success) =>
             /\ reply'.opId = Last(undoStack).opId
             /\ undoStack' = Pop(undoStack)]_vars

\* the positions of the messages of the outbox sent to connection d
SentTo(out, d) == {i \in 1..Len(out) : out[i].to = d}

\* C28: after a successful undo or redo in room R every open client of R has
\* been sent exactly two messages, first the result and then a state-update
\* whose ops are R's ops and whose canUndo and canRedo are those of the
\* client's own author: canUndo iff ops holds an operation of the author,
\* canRedo iff undoStack holds one.
C28_StateUpdateCarriesOwnFlags ==
  ( /\ lastReq.type \in {"undo", "redo"}
    /\ lastReq.room # NoRoom
    /\ \E i \in 1..Len(outbox) : outbox[i].success ) =>
     LET ds == rooms[lastReq.room].drawingState
     IN \A d \in rooms[lastReq.room].clients :
           conns[d].readyState = "OPEN" =>
              \E i, j \in SentTo(outbox, d) :
                 /\ SentTo(outbox, d) = {i, j}
                 /\ i < j
                 /\ outbox[i].type = lastReq.type
                 /\ outbox[i].success
                 /\ outbox[j].type = "state-update"
                 /\ outbox[j].ops = ds.ops
                 /\ outbox[j].canUndo <=>
                       \E k \in 1..Len(ds.ops) :
                          ds.ops[k].userId = conns[d].userId
                 /\ outbox[j].canRedo <=>
                       \E k \in 1..Len(ds.undoStack) :
                          ds.undoStack[k].userId = conns[d].userId

\* an undo has just succeeded in a room of two open clients, and the
\* state-update sent to the other client differs in its flags from the one
\* sent to the requester
C28_Witness ==
  /\ lastReq.type = "undo"
  /\ lastReq.room # NoRoom
  /\ Len(outbox) = 4
  /\ outbox[1].success
  /\ outbox[3].type = "state-update"
  /\ outbox[4].type = "state-update"
  /\ outbox[3].to # outbox[4].to
  /\ outbox[3].canUndo # outbox[4].canUndo
  /\ outbox[3].canRedo # outbox[4].canRedo

\* ------------------------------------------------------------------ client
\* CanvasApp keeps in this.ops a local copy of the room's operations. The
\* entry flushPath adds before the server has answered carries the identity
\* 'pending-<Date.now()>' and no timestamp: identities below zero stand for
\* the pending ones, timestamp 0 for the absent field.
pending(local, u, raw) ==
  [opId |-> 0 - (1 + Len(SelectSeq(local, LAMBDA o : o.opId < 0))),
   userId |-> u, timestamp |-> 0, path |-> raw.path, width |-> raw.width]

\* flushPath: this.ops.push(Object.assign({ opId: 'pending-…' }, op))
flushed(local, u, raw) ==
  IF Len(raw.path) < 2 THEN local ELSE Append(local, pending(local, u, raw))

\* s with x put behind the last entry whose timestamp is not above x's
RECURSIVE insertByTimestamp(_, _)
insertByTimestamp(s, x) ==
  IF s = <<>> THEN <<x>>
  ELSE IF Last(s).timestamp <= x.timestamp THEN Append(s, x)
  ELSE Append(insertByTimestamp(SubSeq(s, 1, Len(s) - 1), x), Last(s))

\* a stable sort of s by timestamp
RECURSIVE sortedByTimestamp(_)
sortedByTimestamp(s) ==
  IF s = <<>> THEN <<>>
  ELSE insertByTimestamp(sortedByTimestamp(SubSeq(s, 1, Len(s) - 1)), Last(s))

\* this.ops.sort((a, b) => a.timestamp - b.timestamp): a pending entry has no
\* timestamp, the comparator yields NaN for it and is not a consistent
\* ordering, so the order the engine leaves is any order of the entries
sorted(s) ==
  IF \A i \in 1..Len(s) : s[i].opId > 0
  THEN {sortedByTimestamp(s)}
  ELSE {[i \in 1..Len(s) |-> s[p[i]]] : p \in Permutations(1..Len(s))}

\* ws.on('redo'): push, then sort by timestamp
onRedoMsg(local, msg) == sorted(Append(local, msg.op))

\* WS._dispatch: the local ops a client can hold after the handler of msg
dispatch(local, msg) ==
  CASE msg.type = "room-joined" -> {msg.ops}
    [] msg.type = "op" -> {Append(local, msg.op)}
    [] msg.type = "undo" ->
         IF msg.success /\ msg.op # NoOp
         THEN {SelectSeq(local, LAMBDA o : o.opId # msg.op.opId)}
         ELSE {local}
    [] msg.type = "redo" ->
         IF msg.success /\ msg.op # NoOp
         THEN onRedoMsg(local, msg)
         ELSE {local}
    [] msg.type = "clear" -> IF msg.success THEN {<<>>} ELSE {local}
    [] OTHER -> {local}

\* the local ops client c can hold once it has processed, in the order
\* sent, the messages of out addressed to it
RECURSIVE received(_, _, _)
received(local, out, c) ==
  IF out = <<>> THEN {local}
  ELSE IF out[1].to # c THEN received(local, Tail(out), c)
  ELSE UNION {received(l, Tail(out), c) : l \in dispatch(local, out[1])}

\* every client processes what the server has just sent to it; before is
\* the clients' local ops and drawers the clients that flushed a stroke
\* ahead of it
deliver(before, drawers) ==
  /\ \E l1 \in received(before[ConnOrder[1]], outbox', ConnOrder[1]),
        l2 \in received(before[ConnOrder[2]], outbox', ConnOrder[2]),
        l3 \in received(before[ConnOrder[3]], outbox', ConnOrder[3]) :
        clientOps' = [c \in Conns |->
                        IF c = ConnOrder[1] THEN l1
                        ELSE IF c = ConnOrder[2] THEN l2 ELSE l3]
  /\ drew' = (drew \cup drawers)
                \ {outbox'[i].to : i \in
                      {j \in 1..Len(outbox') : outbox'[j].type = "room-joined"}}

\* a page is opened and its socket accepted
ClientConnect ==
  /\ \E c \in Pair : onConnection(c, "#e53935")
  /\ RoomLogIdle /\ UNCHANGED clientVars

\* every page opens the room of the same address: the default room
ClientJoin ==
  /\ \E c \in Conns : onJoinRoom(c, "")
  /\ RoomLogIdle /\ deliver(clientOps, {})

\* _end: flushPath(true), the draw message handled by the server and the
\* messages it sends processed by the clients
ClientDraw ==
  /\ clock < MaxStrokes
  /\ \E c \in Conns, raw \in RawOps :
        /\ Len(SelectSeq(clientOps[c], LAMBDA o : o.opId < 0)) < MaxStrokes
        /\ onDraw(c, raw)
        /\ deliver([clientOps EXCEPT
                      ![c] = flushed(@, conns[c].userId, raw)], {c})
  /\ RoomLogIdle

ClientUndo == (\E c \in Conns : onUndo(c)) /\ RoomLogIdle /\ deliver(clientOps, {})

ClientRedo == (\E c \in Conns : onRedo(c)) /\ RoomLogIdle /\ deliver(clientOps, {})

ClientClear == (\E c \in Conns : onClear(c)) /\ RoomLogIdle /\ deliver(clientOps, {})

NextClient ==
  \/ ClientConnect \/ ClientJoin \/ ClientDraw
  \/ ClientUndo \/ ClientRedo \/ ClientClear

SpecClient == Init /\ [][NextClient]_vars

\* C29: when a client has flushed a stroke and processed the server's op
\* message for it, its local ops are those it had before with the stroke
\* added exactly once, under the identity the server assigned, and no
\* pending entry left for it.
C29_OwnStrokeReconciledOnOp ==
  [][\A c \in Conns :
       ( /\ lastReq'.type = "draw" /\ lastReq'.from = c
         /\ \E i \in SentTo(outbox', c) : outbox'[i].type = "op" ) =>
          \A i \in SentTo(outbox', c) :
             clientOps'[c] = Append(clientOps[c], outbox'[i].op)]_vars

\* C30: a client that is in room R and has flushed no stroke since it
\* processed room-joined holds, after every message processed, the
\* identities of R's ops in the same order.
C30_ObserverMirrorsRoomOps ==
  \A c \in Conns :
     (conns[c].roomId # NoRoom /\ c \notin drew) =>
        OpIds(clientOps[c]) = OpIds(rooms[conns[c].roomId].drawingState.ops)

\* C31: in every reachable state a connection's roomId is the identifier r
\* exactly when r is in the directory and the connection is in the client set
\* of the room registered under r, so the room of a bound connection is never
\* missing from the directory; and a connection that has disconnected is bound
\* to no room and in no room's client set.
C31_BoundExactlyWhenMember ==
  \A c \in Conns :
     /\ conns[c].roomId \in RoomIds \cup {NoRoom}
     /\ \A r \in RoomIds :
           conns[c].roomId = r <=> (rooms[r].exists /\ c \in rooms[r].clients)
     /\ conns[c].readyState = "CLOSED" =>
           /\ conns[c].roomId = NoRoom
           /\ RoomsOf(rooms, c) = {}

\* a reaper tick has just deleted the room a connection left by disconnecting,
\* while another connection is bound to a room that stays
C31_Witness ==
  /\ lastReq.type = "reap"
  /\ lastReq.cleaned # {}
  /\ \E c \in Conns : conns[c].readyState = "CLOSED" /\ RoomsOf(rooms, c) = {}
  /\ \E d \in Conns :
        /\ conns[d].roomId # NoRoom
        /\ rooms[conns[d].roomId].exists
        /\ d \in rooms[conns[d].roomId].clients

====
